---- MODULE Spec2Model ----
(***************************************************************************)
(* private-box: multi-recipient envelope (src/src/private_box.rs).         *)
(*                                                                         *)
(* encrypt and decrypt are modelled byte for byte on the envelope layout.  *)
(* The libsodium primitives are ideal and symbolic: a byte is a tagged     *)
(* tuple, <<"b", v>> for a plain byte of value v, and a tuple naming its   *)
(* origin for key material, nonces and ciphertext.  An open succeeds       *)
(* exactly on the bytes a seal with the same key and nonce produced.       *)
(***************************************************************************)
EXTENDS Integers, Sequences, FiniteSets, TLC

VARIABLES
    pc,          \* position of the run: start, enc_slots, wire, dec_scan, done
    plaintext,   \* encrypt's argument
    recipients,  \* encrypt's argument
    enc,         \* encrypt's local buffers
    cyphertext,  \* the bytes on the wire, decrypt's argument
    origin,      \* how cyphertext came about: none, encrypt, tampered, crafted, junk
    tampered_at, \* 1-based position altered on the wire, 0 when none
    secret_key,  \* decrypt's argument
    dec,         \* decrypt's local buffers
    scan_log,    \* history of decrypt's loop: one record per visited index
    ret          \* decrypt's outcome: None, Some (with val) or panic

vars == <<pc, plaintext, recipients, enc, cyphertext, origin, tampered_at,
          secret_key, dec, scan_log, ret>>

(***************************************************************************)
(* Program constants                                                       *)
(***************************************************************************)
MAX_RECIPIENTS == 7
NONCE_NUM_BYTES == 24
KEY_NUM_BYTES == 32
_KEY_NUM_BYTES == KEY_NUM_BYTES + 1
crypto_box_PUBLICKEYBYTES == 32
crypto_box_SECRETKEYBYTES == 32
crypto_secretbox_MACBYTES == 16
START_BYTE_NUM == 24 + 32
BOXED_KEY_SIZE_BYTES == 32 + 1 + 16
U8_MODULUS == 256

(***************************************************************************)
(* Bounds of the model                                                     *)
(***************************************************************************)
MaxRecipientsLen == 9    \* longest recipient list given to a full encrypt
MaxLongLen == 300        \* longest recipient list given to the count-byte run
LongPlaintextLen == 49   \* length of the long plaintext (one slot's worth)
MaxCraftSlots == 2       \* slots in an envelope built by a hostile sender

Keypairs == {1, 2, 3}    \* long-term keypairs: 1 and 2 receive, 3 never does
Ephemeral == Cardinality(Keypairs) + 1   \* names what one message's sender draws afresh
CraftCounts == {0, 1, 2, 255}
MessageKeys == {1, 2}

Min(a, b) == IF a < b THEN a ELSE b

(***************************************************************************)
(* Bytes and buffers                                                       *)
(***************************************************************************)
B(v) == <<"b", v>>
Zeros(n) == [j \in 1..n |-> B(0)]
Bytes(s) == [j \in 1..Len(s) |-> B(s[j])]
Slice(s, offset, n) == SubSeq(s, offset + 1, offset + n)   \* s[offset .. offset+n], 0-based

PublicKey(k) == [j \in 1..crypto_box_PUBLICKEYBYTES |-> <<"pk", k, j>>]
SecretKey(k) == [j \in 1..crypto_box_SECRETKEYBYTES |-> <<"sk", k, j>>]
MessageKey(k) == [j \in 1..KEY_NUM_BYTES |-> <<"key", k, j>>]
Nonce(k) == [j \in 1..NONCE_NUM_BYTES |-> <<"nonce", k, j>>]

\* The buffer's name when it holds one whole symbolic value, the buffer itself otherwise.
Name(buf) ==
    IF Len(buf) > 0 /\ \A j \in 1..Len(buf) : buf[j] = <<buf[1][1], buf[1][2], j>>
    THEN <<buf[1][1], buf[1][2]>>
    ELSE <<"raw", buf>>

IsKey(buf, tag) == Len(buf) = KEY_NUM_BYTES /\ Name(buf)[1] = tag

(***************************************************************************)
(* libsodium, ideal                                                        *)
(***************************************************************************)
\* Diffie-Hellman: scalarmult(sk_a, pk_b) = scalarmult(sk_b, pk_a).
crypto_scalarmult(sk, pk) ==
    IF IsKey(sk, "sk") /\ IsKey(pk, "pk")
    THEN LET a == Name(sk)[2]
             b == Name(pk)[2]
         IN  [j \in 1..KEY_NUM_BYTES |->
                 <<"dh", <<Min(a, b), IF a < b THEN b ELSE a>>, j>>]
    ELSE [j \in 1..KEY_NUM_BYTES |-> <<"dhx", <<Name(sk), Name(pk)>>, j>>]

\* secretbox: a 16-byte authenticator over the whole message, then the
\* message under the key stream of (key, nonce).
crypto_secretbox_easy(m, nonce, key) ==
    LET k == Name(key)
        n == Name(nonce)
    IN  [j \in 1..(crypto_secretbox_MACBYTES + Len(m)) |->
            IF j <= crypto_secretbox_MACBYTES
            THEN <<"mac", k, n, m, j>>
            ELSE <<"xor", k, n, m[j - crypto_secretbox_MACBYTES], j>>]

\* open: code 0 and the message when c is what a seal under (key, nonce)
\* produced, code -1 and nothing written otherwise.
crypto_secretbox_open_easy(c, nonce, key) ==
    IF /\ Len(c) >= crypto_secretbox_MACBYTES
       /\ c[1][1] = "mac"
       /\ c = crypto_secretbox_easy(c[1][4], nonce, key)
    THEN [code |-> 0, m |-> c[1][4]]
    ELSE [code |-> -1, m |-> <<>>]

(***************************************************************************)
(* encrypt                                                                 *)
(***************************************************************************)
\* cmp::min(recipients.len() as u8, MAX_RECIPIENTS as u8)
CountByte(len) == Min(len % U8_MODULUS, MAX_RECIPIENTS % U8_MODULUS)

NoEnc == [nonce |-> <<>>, key |-> <<>>, one_time_pubkey |-> <<>>,
          one_time_secretkey |-> <<>>, _key |-> <<>>, skey |-> <<>>,
          boxed_key_for_recipients |-> <<>>, next |-> 0]

NoDec == [nonce |-> <<>>, onetime_pk |-> <<>>, my_key |-> <<>>, _key |-> <<>>,
          key |-> <<>>, num_recps |-> 0, unbox_code |-> -1, did_unbox |-> FALSE,
          i |-> 0]

NoRet == [tag |-> "none", val |-> <<>>]

Plaintexts == {<<>>, <<0, 1, 2>>, [j \in 1..LongPlaintextLen |-> j]}

\* Recipient lists: n entries, keypair 1 at position p (nowhere when p = 0),
\* keypair 2 everywhere else.
ListWith(n, p) == [j \in 1..n |-> IF j = p THEN PublicKey(1) ELSE PublicKey(2)]
RecipientLists == {ListWith(n, p) : n \in 0..MaxRecipientsLen, p \in 0..MaxRecipientsLen}
LongLists == {ListWith(n, 0) : n \in 0..MaxLongLen}

\* Lines 78-89: the random draws and the prefixed key.
EncryptBegin(m, R) ==
    /\ pc = "start"
    /\ plaintext' = m
    /\ recipients' = R
    /\ enc' = [NoEnc EXCEPT
                !.nonce = Nonce(Ephemeral),
                !.key = MessageKey(Ephemeral),
                !.one_time_pubkey = PublicKey(Ephemeral),
                !.one_time_secretkey = SecretKey(Ephemeral),
                !._key = <<B(CountByte(Len(R)))>> \o MessageKey(Ephemeral),
                !.next = 1]
    /\ pc' = "enc_slots"
    /\ UNCHANGED <<cyphertext, origin, tampered_at, secret_key, dec, scan_log, ret>>

\* The recipients the iterator of lines 91-93 yields: every one of them.
SlotRecipients(R) == 1..Len(R)

\* Lines 93-103: the closure, once per recipient the iterator yields.
EncryptSlot ==
    /\ pc = "enc_slots"
    /\ enc.next \in SlotRecipients(recipients)
    /\ LET skey == crypto_scalarmult(enc.one_time_secretkey, recipients[enc.next])
           cyphertext_ == crypto_secretbox_easy(enc._key, enc.nonce, skey)
       IN  enc' = [enc EXCEPT
                    !.skey = Zeros(KEY_NUM_BYTES),
                    !.boxed_key_for_recipients = @ \o cyphertext_,
                    !.next = @ + 1]
    /\ UNCHANGED <<pc, plaintext, recipients, cyphertext, origin, tampered_at,
                   secret_key, dec, scan_log, ret>>

\* Lines 106-126: the sealed body, the concatenation, the wipes, the return.
EncryptReturn ==
    /\ pc = "enc_slots"
    /\ enc.next \notin SlotRecipients(recipients)
    /\ LET boxed_message == crypto_secretbox_easy(Bytes(plaintext), enc.nonce, enc.key)
           result == enc.nonce \o enc.one_time_pubkey
                       \o enc.boxed_key_for_recipients \o boxed_message
       IN  /\ cyphertext' = result
           /\ enc' = [enc EXCEPT
                        !.one_time_secretkey = Zeros(crypto_box_SECRETKEYBYTES),
                        !.one_time_pubkey = Zeros(crypto_box_PUBLICKEYBYTES),
                        !.key = Zeros(KEY_NUM_BYTES),
                        !.nonce = Zeros(NONCE_NUM_BYTES),
                        !._key = Zeros(_KEY_NUM_BYTES),
                        !.boxed_key_for_recipients = <<>>]    \* moved into result
    /\ origin' = "encrypt"
    /\ pc' = "wire"
    /\ UNCHANGED <<plaintext, recipients, tampered_at, secret_key, dec, scan_log, ret>>

(***************************************************************************)
(* The wire: an honest envelope may be altered in one position; a hostile  *)
(* sender may build an envelope of its own; or the bytes are junk.         *)
(***************************************************************************)
Flip(b) == <<"flip", b>>    \* a byte that differs from b

\* First byte of the first slot, last byte of the last slot, first and last
\* byte of the sealed body (1-based).
TamperPositions ==
    LET body == START_BYTE_NUM + BOXED_KEY_SIZE_BYTES * Len(recipients)
    IN  {p \in {START_BYTE_NUM + 1, body} : p > START_BYTE_NUM /\ p <= body}
        \cup {body + 1, Len(cyphertext)}

Tamper(p) ==
    /\ pc = "wire"
    /\ origin = "encrypt"
    /\ cyphertext' = [cyphertext EXCEPT ![p] = Flip(@)]
    /\ origin' = "tampered"
    /\ tampered_at' = p
    /\ UNCHANGED <<pc, plaintext, recipients, enc, secret_key, dec, scan_log, ret>>

JunkLens == {0, 15, 16, 23, 24, 55, 56, 71, 72, 104, 105, 120, 121, 170, 400}

Junk(n) ==
    /\ pc = "start"
    /\ cyphertext' = Zeros(n)
    /\ origin' = "junk"
    /\ pc' = "wire"
    /\ UNCHANGED <<plaintext, recipients, enc, tampered_at, secret_key, dec, scan_log, ret>>

\* A hostile sender's slot: junk, or count byte c and message key k sealed
\* for keypair 1 under the sender's own ephemeral key.
SlotSpecs == {[junk |-> TRUE, c |-> 0, k |-> 0]}
             \cup {[junk |-> FALSE, c |-> c, k |-> k] : c \in CraftCounts, k \in MessageKeys}
SlotLayouts == UNION {[1..n -> SlotSpecs] : n \in 0..MaxCraftSlots}
CraftPlaintexts == {<<0, 1, 2>>}

CraftSlot(s) ==
    IF s.junk
    THEN Zeros(BOXED_KEY_SIZE_BYTES)
    ELSE crypto_secretbox_easy(<<B(s.c)>> \o MessageKey(s.k), Nonce(Ephemeral),
             crypto_scalarmult(SecretKey(Ephemeral), PublicKey(1)))

RECURSIVE CraftSlots(_)
CraftSlots(layout) ==
    IF layout = <<>> THEN <<>>
    ELSE CraftSlot(Head(layout)) \o CraftSlots(Tail(layout))

Craft(layout, m, k) ==
    /\ pc = "start"
    /\ cyphertext' = Nonce(Ephemeral) \o PublicKey(Ephemeral) \o CraftSlots(layout)
                       \o crypto_secretbox_easy(Bytes(m), Nonce(Ephemeral), MessageKey(k))
    /\ origin' = "crafted"
    /\ pc' = "wire"
    /\ UNCHANGED <<plaintext, recipients, enc, tampered_at, secret_key, dec, scan_log, ret>>

(***************************************************************************)
(* decrypt                                                                 *)
(***************************************************************************)
None == [tag |-> "None", val |-> <<>>]
Some(v) == [tag |-> "Some", val |-> v]
Panic == [tag |-> "panic", val |-> <<>>]

ByteVal(b) == b[2]

\* Lines 171-184.  array_ref! slices cyphertext[0..24] and cyphertext[24..56]
\* and panics when the slice is out of range.
DecryptBegin(sk) ==
    /\ pc = "wire"
    /\ secret_key' = sk
    /\ IF Len(cyphertext) < NONCE_NUM_BYTES
          \/ Len(cyphertext) < NONCE_NUM_BYTES + crypto_box_PUBLICKEYBYTES
       THEN /\ ret' = Panic
            /\ pc' = "done"
            /\ UNCHANGED dec
       ELSE /\ LET onetime_pk == Slice(cyphertext, NONCE_NUM_BYTES, crypto_box_PUBLICKEYBYTES)
               IN  dec' = [NoDec EXCEPT
                            !.nonce = Slice(cyphertext, 0, NONCE_NUM_BYTES),
                            !.onetime_pk = onetime_pk,
                            !.my_key = crypto_scalarmult(sk, onetime_pk),
                            !._key = Zeros(_KEY_NUM_BYTES),
                            !.key = Zeros(KEY_NUM_BYTES)]
            /\ pc' = "dec_scan"
            /\ UNCHANGED ret
    /\ UNCHANGED <<plaintext, recipients, enc, cyphertext, origin, tampered_at, scan_log>>

\* Line 187
SlotOffset(i) == START_BYTE_NUM + BOXED_KEY_SIZE_BYTES * i

\* Variant of SkipSlot: the comparison off by one.
SkipSlotOffByOne(offset, len) ==
    (offset + BOXED_KEY_SIZE_BYTES) >= (len - crypto_secretbox_MACBYTES)

\* Line 188: the index is skipped.  len - 16 cannot be negative here: lines
\* 171-172 have panicked on fewer than 56 bytes.
SkipSlot(offset, len) == (offset + BOXED_KEY_SIZE_BYTES) > (len - crypto_secretbox_MACBYTES)

\* Variant of Unbox: the return code of the open is not looked at.
UnboxIgnoringCode(d, chunk) ==
    LET o == crypto_secretbox_open_easy(chunk, d.nonce, d.my_key)
    IN  [d EXCEPT !.unbox_code = o.code,
                  !.num_recps = IF o.code = 0 THEN ByteVal(o.m[1]) ELSE ByteVal(d._key[1]),
                  !._key = IF o.code = 0 THEN o.m ELSE @,
                  !.key = IF o.code = 0 THEN Slice(o.m, 1, KEY_NUM_BYTES)
                          ELSE Slice(d._key, 1, KEY_NUM_BYTES),
                  !.did_unbox = TRUE]

\* Variant of Unbox: the first success is kept, later ones are ignored.
UnboxFirstMatch(d, chunk) ==
    LET o == crypto_secretbox_open_easy(chunk, d.nonce, d.my_key)
    IN  IF o.code = 0 /\ ~d.did_unbox
        THEN [d EXCEPT !.unbox_code = 0,
                       !._key = o.m,
                       !.num_recps = ByteVal(o.m[1]),
                       !.key = Slice(o.m, 1, KEY_NUM_BYTES),
                       !.did_unbox = TRUE]
        ELSE [d EXCEPT !.unbox_code = o.code]

\* Lines 194-201: the open of one chunk and what a success records
Unbox(d, chunk) ==
    LET o == crypto_secretbox_open_easy(chunk, d.nonce, d.my_key)
    IN  IF o.code = 0
        THEN [d EXCEPT !.unbox_code = 0,
                       !._key = o.m,
                       !.num_recps = ByteVal(o.m[1]),
                       !.key = Slice(o.m, 1, KEY_NUM_BYTES),
                       !.did_unbox = TRUE]
        ELSE [d EXCEPT !.unbox_code = o.code]

\* Lines 186-202: one iteration of the loop
DecryptScan ==
    /\ pc = "dec_scan"
    /\ dec.i < MAX_RECIPIENTS
    /\ LET offset == SlotOffset(dec.i)
       IN  IF SkipSlot(offset, Len(cyphertext))
           THEN /\ dec' = [dec EXCEPT !.i = @ + 1]
                /\ scan_log' = Append(scan_log,
                       [i |-> dec.i, offset |-> offset, attempted |-> FALSE, code |-> -1])
           ELSE LET d == Unbox(dec, Slice(cyphertext, offset, BOXED_KEY_SIZE_BYTES))
                IN  /\ dec' = [d EXCEPT !.i = @ + 1]
                    /\ scan_log' = Append(scan_log,
                           [i |-> dec.i, offset |-> offset, attempted |-> TRUE,
                            code |-> d.unbox_code])
    /\ UNCHANGED <<pc, plaintext, recipients, enc, cyphertext, origin, tampered_at,
                   secret_key, ret>>

\* Line 206
BodyOffset(num_recps) == START_BYTE_NUM + BOXED_KEY_SIZE_BYTES * num_recps

\* Lines 204-216.  cyphertext.len() - offset and boxed_msg_len - 16 are
\* unsigned: when negative, a checked build panics at the subtraction and an
\* unchecked build wraps to a length above isize::MAX, on which vec! panics.
\* The return code of the body's open is dropped: a failed open leaves
\* result as allocated.
Match(d, c) ==
    IF ~d.did_unbox THEN None
    ELSE LET offset == BodyOffset(d.num_recps)
         IN  IF offset > Len(c) THEN Panic
             ELSE LET boxed_msg_len == Len(c) - offset
                  IN  IF boxed_msg_len < crypto_secretbox_MACBYTES THEN Panic
                      ELSE LET o == crypto_secretbox_open_easy(
                                        Slice(c, offset, boxed_msg_len), d.nonce, d.key)
                           IN  Some(IF o.code = 0 THEN o.m
                                    ELSE Zeros(boxed_msg_len - crypto_secretbox_MACBYTES))

DecryptReturn ==
    /\ pc = "dec_scan"
    /\ dec.i = MAX_RECIPIENTS
    /\ ret' = Match(dec, cyphertext)
    /\ pc' = "done"
    /\ UNCHANGED <<plaintext, recipients, enc, cyphertext, origin, tampered_at,
                   secret_key, dec, scan_log>>

Init ==
    /\ pc = "start"
    /\ plaintext = <<>>
    /\ recipients = <<>>
    /\ enc = NoEnc
    /\ cyphertext = <<>>
    /\ origin = "none"
    /\ tampered_at = 0
    /\ secret_key = <<>>
    /\ dec = NoDec
    /\ scan_log = <<>>
    /\ ret = NoRet

Next ==
    \/ \E m \in Plaintexts, R \in RecipientLists : EncryptBegin(m, R)
    \/ EncryptSlot
    \/ EncryptReturn
    \/ \E p \in TamperPositions : Tamper(p)
    \/ \E n \in JunkLens : Junk(n)
    \/ \E layout \in SlotLayouts, m \in CraftPlaintexts, k \in MessageKeys : Craft(layout, m, k)
    \/ \E k \in Keypairs : DecryptBegin(SecretKey(k))
    \/ DecryptScan
    \/ DecryptReturn

Spec == Init /\ [][Next]_vars

\* The count-byte run: encrypt's prefix on recipient lists of any length up
\* to MaxLongLen, where the length no longer fits in a byte.
NextCount == \E R \in LongLists : EncryptBegin(<<>>, R)

SpecCount == Init /\ [][NextCount]_vars

(***************************************************************************)
(* Properties                                                              *)
(***************************************************************************)
KeyOf(sk) == Name(sk)[2]
IsRecipient(sk, R) == \E p \in 1..Len(R) : R[p] = PublicKey(KeyOf(sk))
Decrypted == pc = "done"
Encrypted == origin = "encrypt" /\ pc \in {"wire", "dec_scan", "done"}

\* C1: round trip.  An envelope built by encrypt for 1 to 7 recipients and
\* handed unaltered to decrypt with the secret key of a recipient at any
\* position of the list opens to the plaintext, the empty one included.
RoundTrip ==
    (/\ Decrypted
     /\ origin = "encrypt"
     /\ Len(recipients) \in 1..7
     /\ IsRecipient(secret_key, recipients))
    => ret = Some(Bytes(plaintext))

RoundTripWitness ==
    /\ Decrypted
    /\ origin = "encrypt"
    /\ Len(recipients) = 7
    /\ recipients[7] = PublicKey(1)
    /\ secret_key = SecretKey(1)
    /\ plaintext = <<>>
    /\ ret = Some(<<>>)

\* C2: non-recipient exclusion.  An envelope built by encrypt for any
\* recipient list, handed unaltered to decrypt with a secret key whose public
\* key is not in the list, yields None, also when the sealed body is long
\* enough for its bytes to be scanned as a slot.
NonRecipientExcluded ==
    (/\ Decrypted
     /\ origin = "encrypt"
     /\ ~IsRecipient(secret_key, recipients))
    => ret = None

NonRecipientWitness ==
    /\ Decrypted
    /\ origin = "encrypt"
    /\ Len(recipients) = 1
    /\ Len(plaintext) >= 49
    /\ secret_key = SecretKey(3)
    /\ scan_log[2].attempted
    /\ ret = None

\* C3: truncation.  For a recipient list longer than 7 the envelope has
\* exactly 7 slots, the first 7 recipients open it to the plaintext and the
\* later ones do not.
Truncation ==
    (Encrypted /\ Len(recipients) > 7)
    => /\ Len(cyphertext) = 56 + 49 * 7 + Len(plaintext) + 16
       /\ Decrypted =>
            IF IsRecipient(secret_key, SubSeq(recipients, 1, 7))
            THEN ret = Some(Bytes(plaintext))
            ELSE ret = None

\* C4: length determinism.  The envelope encrypt returns is
\* 56 + 49 * min(|R|, 7) + len(m) + 16 bytes long, for every list length.
LengthDeterminism ==
    Encrypted
    => Len(cyphertext) = 56 + 49 * Min(Len(recipients), 7) + Len(plaintext) + 16

\* C5: malformed input.  decrypt of fewer than 121 bytes returns None and
\* does not abort.
MalformedRejected ==
    (Decrypted /\ Len(cyphertext) < 121) => ret = None

\* The altered position p (1-based) lies in the sealed body; in the one slot
\* sealed for secret_key.
InBody(p) == p > 56 + 49 * Len(recipients)
OwnSlot(p) ==
    /\ ~InBody(p)
    /\ p > 56
    /\ recipients[((p - 57) \div 49) + 1] = PublicKey(KeyOf(secret_key))
    /\ Cardinality({q \in 1..Len(recipients) : recipients[q] = PublicKey(KeyOf(secret_key))}) = 1

\* C6: tamper sensitivity.  With one position altered inside the slot the
\* key opens, or inside the sealed body, decrypt with a recipient's key
\* returns None; it never returns Some when the body fails to authenticate.
TamperSensitivity ==
    (/\ Decrypted
     /\ origin = "tampered"
     /\ Len(recipients) \in 1..7
     /\ IsRecipient(secret_key, recipients)
     /\ (InBody(tampered_at) \/ OwnSlot(tampered_at)))
    => ret = None

\* C7: parser totality.  On at least 121 bytes of any content decrypt ends
\* in Some or None and never aborts.
ParserTotality ==
    (Decrypted /\ Len(cyphertext) >= 121) => ret.tag \in {"Some", "None"}

EncryptWiped ==
    /\ enc.one_time_secretkey = Zeros(32)
    /\ enc.key = Zeros(32)
    /\ enc.nonce = Zeros(24)
    /\ enc._key = Zeros(33)
    /\ Len(recipients) > 0 => enc.skey = Zeros(32)
DecryptWiped ==
    /\ dec.my_key = Zeros(32)
    /\ dec._key = Zeros(33)
    /\ dec.key = Zeros(32)

\* C8: secret wiping.  When encrypt or decrypt returns, every secret buffer
\* the operation drew or derived holds zeros.
SecretsWiped ==
    /\ Encrypted => EncryptWiped
    /\ (Decrypted /\ ret.tag \in {"Some", "None"}) => DecryptWiped

\* The scan as the envelope's bytes determine it, index by index.
MyKey == crypto_scalarmult(secret_key, SubSeq(cyphertext, 25, 56))
SlotOpen(i) ==
    crypto_secretbox_open_easy(SubSeq(cyphertext, 56 + 49 * i + 1, 56 + 49 * i + 49),
                               SubSeq(cyphertext, 1, 24), MyKey)
InRange(i) == 56 + 49 * i + 49 <= Len(cyphertext) - 16
Opening == {i \in 0..6 : InRange(i) /\ SlotOpen(i).code = 0}
Last(S) == CHOOSE i \in S : \A j \in S : j <= i
Scanning == pc = "dec_scan" \/ (pc = "done" /\ Len(cyphertext) >= 56)
\* C9: trial scan.  decrypt visits the indices 0..6 in increasing order; it
\* attempts the open at 56 + 49*i exactly when 56 + 49*i + 49 <= len - 16; it
\* goes on after a success; and the count and the message key that locate and
\* open the body are those of the last index that opened.
TrialScan ==
    Scanning =>
      LET opening == Opening
      IN
        /\ Len(scan_log) = dec.i
        /\ pc = "done" => Len(scan_log) = 7
        /\ \A j \in 1..Len(scan_log) :
              /\ scan_log[j].i = j - 1
              /\ scan_log[j].offset = 56 + 49 * (j - 1)
              /\ scan_log[j].attempted <=> InRange(j - 1)
              /\ (scan_log[j].code = 0) <=> (j - 1) \in opening
        /\ (pc = "done" /\ opening = {}) => ret = None
        /\ (pc = "done" /\ opening # {}) =>
              LET payload == SlotOpen(Last(opening)).m
                  n == payload[1][2]
                  body == crypto_secretbox_open_easy(
                              SubSeq(cyphertext, 56 + 49 * n + 1, Len(cyphertext)),
                              SubSeq(cyphertext, 1, 24), SubSeq(payload, 2, 33))
              IN  /\ dec.num_recps = n
                  /\ dec.key = SubSeq(payload, 2, 33)
                  /\ ret # None
                  /\ (56 + 49 * n + 16 <= Len(cyphertext) /\ body.code = 0)
                        => ret = Some(body.m)

TrialScanWitness ==
    /\ pc = "done"
    /\ origin = "crafted"
    /\ Opening = {0, 1}
    /\ SlotOpen(0).m # SlotOpen(1).m
    /\ SlotOpen(0).m[1] # SlotOpen(1).m[1]
    /\ dec.num_recps = 2
    /\ ret = Some(Bytes(<<0, 1, 2>>))

\* C10: count byte.  For every recipient list of length L >= 1 the count
\* byte encrypt prefixes to the message key is min(L, 7), also for L >= 256.
CountByteCapped ==
    (pc = "enc_slots" /\ Len(recipients) >= 1)
    => enc._key[1] = B(Min(Len(recipients), 7))
====
